---- MODULE Spec2Model ----
(***************************************************************************)
(* Model of the recording viewer:                                          *)
(*   - SceneController (src/src/render/sceneController.ts): the id->mesh   *)
(*     map, the selected / hovered back-references and the material of     *)
(*     every entity mesh;                                                  *)
(*   - the host dispatch of src/src/main.ts: the 'asynchronous-message'    *)
(*     handler, the clear-confirmation dialog and the session flag.        *)
(* The two run in different processes and share no state, so each has its  *)
(* own specification: Spec, PointerSpec and CreateSpec (scene), HostSpec   *)
(* (host).                                                                 *)
(***************************************************************************)
EXTENDS Integers, Sequences, FiniteSets, TLC

\* ------------------------------------------------------------------ bounds
\* Entity ids handed to the controller are the MaxId integers from FirstId on:
\* ids of one and of two decimal digits.
FirstId == 9
MaxId == 2
\* Recorded positions are <<x, 0, 0>> with x in 0..MaxCoord.
MaxCoord == 1
\* Cap on the meshes of the scene when createEntity is called directly.
MaxMeshes == 3
\* Messages received on 'asynchronous-message', menu clicks and recent-file
\* changes the host handles in one run.
MaxRequests == 2

EntityIds == FirstId..(FirstId + MaxId - 1)
Positions == {<<x, 0, 0>> : x \in 0..MaxCoord}
\* RECORDING.IEntity, reduced to what the controller reads of it.
Entities == [id : EntityIds, position : Positions]

\* ------------------------------------------------------- values and helpers
\* A field that was declared and never assigned (selectedEntity, hoveredEntity
\* before the first call) and the result of Map.get for a missing key.
Undefined == 0
\* The value onEntityStopHovered stores in hoveredEntity.
Null == -1
\* Mesh references are the indices 1..Len(meshes) of the scene's mesh list.

\* The three shared material instances built by createScene.
entityMaterial == "entityMaterial"
selectedMaterial == "selectedMaterial"
hoveredMaterial == "hoveredMaterial"
Materials == {entityMaterial, selectedMaterial, hoveredMaterial}

\* JavaScript truthiness of a mesh reference: if (x) { ... }
Truthy(x) == x \notin {Undefined, Null}

\* JavaScript loose equality (==) on mesh references: undefined == null.
LooseEq(a, b) == (a = b) \/ (~Truthy(a) /\ ~Truthy(b))

Digits == <<"0", "1", "2", "3", "4", "5", "6", "7", "8", "9">>

RECURSIVE NatToString(_)
NatToString(n) ==
    IF n < 10 THEN <<Digits[n + 1]>>
    ELSE NatToString(n \div 10) \o <<Digits[(n % 10) + 1]>>

\* "" + entity.id : the decimal string of an integer, as a sequence of characters.
NumberToString(n) ==
    IF n < 0 THEN <<"-">> \o NatToString(-n) ELSE NatToString(n)

\* A JavaScript number as parseInt returns it: NaN or an integer.
Number(n) == [nan |-> FALSE, value |-> n]
NaN == [nan |-> TRUE, value |-> 0]

IsDigit(c) == \E d \in DOMAIN Digits : Digits[d] = c
DigitValue(c) == (CHOOSE d \in DOMAIN Digits : Digits[d] = c) - 1

\* The longest prefix of chars made of decimal digits.
RECURSIVE LeadingDigits(_)
LeadingDigits(chars) ==
    IF chars = <<>> \/ ~IsDigit(Head(chars)) THEN <<>>
    ELSE <<Head(chars)>> \o LeadingDigits(Tail(chars))

RECURSIVE DigitsToNat(_)
DigitsToNat(ds) ==
    IF ds = <<>> THEN 0
    ELSE 10 * DigitsToNat(SubSeq(ds, 1, Len(ds) - 1)) + DigitValue(ds[Len(ds)])

\* parseInt(string): an optional sign, then the leading decimal digits; what
\* follows them is ignored; NaN when there is no digit to read.
parseInt(chars) ==
    LET signed == chars # <<>> /\ Head(chars) \in {"-", "+"}
        ds     == LeadingDigits(IF signed THEN Tail(chars) ELSE chars)
    IN  IF ds = <<>> THEN NaN
        ELSE IF signed /\ Head(chars) = "-" THEN Number(-DigitsToNat(ds))
        ELSE Number(DigitsToNat(ds))

\* Map.get(key) with a key that is a JavaScript number: undefined when the key
\* is not in the map.
MapGet(ents, key) ==
    IF ~key.nan /\ key.value \in DOMAIN ents THEN ents[key.value] ELSE Undefined

\* RECORDING.NaiveRecordedData.getEntityPosition: the entity's derived position.
getEntityPosition(entity) == entity.position

\* Mutant of NewSphere: the mesh keeps the id CreateSphere gave it, "sphere".
NewSphereUnstamped(entity) ==
    [id         |-> <<"s", "p", "h", "e", "r", "e">>,
     material   |-> entityMaterial,
     isPickable |-> TRUE,
     position   |-> <<0, 0, 0>>,
     enabled    |-> TRUE]

\* BABYLON.Mesh.CreateSphere followed by the three assignments of createEntity:
\* a new mesh is enabled and sits at the origin until it is moved.
NewSphere(entity) ==
    [id         |-> NumberToString(entity.id),
     material   |-> entityMaterial,
     isPickable |-> TRUE,
     position   |-> <<0, 0, 0>>,
     enabled    |-> TRUE]

\* ------------------------------------------------------------------- state
VARIABLES
    meshes,          \* the entity meshes of the scene, in creation order
    entities,        \* Map<number, Mesh>: id -> mesh reference, or Undefined
    selectedEntity,  \* mesh reference, Undefined or Null
    hoveredEntity,   \* mesh reference, Undefined or Null
    lastOp,          \* history: the last call made on the controller
    pass,            \* history: the update pass since the last hideAllEntities
    cursor,          \* canvas.style.cursor
    showClearDataDialog,  \* sessionOptions.showClearDataDialog
    dialogs,         \* open confirmation dialogs: the events their callbacks hold
    fileOps,         \* file manager operations whose callback has not fired
    saves,           \* what fileManager.saveFile was given, in order
    replies,         \* what was sent on 'asynchronous-reply', in order
    nextEvent,       \* the number the next received message gets
    lastHost         \* history: the last step of the host

sceneVars == <<meshes, entities, selectedEntity, hoveredEntity>>
sceneAll == <<meshes, entities, selectedEntity, hoveredEntity, lastOp, pass,
              cursor>>
hostVars == <<showClearDataDialog, dialogs, fileOps, saves, replies>>
hostAll == <<showClearDataDialog, dialogs, fileOps, saves, replies, nextEvent,
             lastHost>>
vars == <<sceneAll, hostAll>>

\* pass.shown[id] when setEntity was not called for id since the last
\* hideAllEntities; otherwise the position of the latest setEntity call for id.
Absent == <<>>
\* pass.active is FALSE until the first hideAllEntities, and again once
\* createEntity is called directly (the pass is then no longer setEntity only).
NoPass == [active |-> FALSE, shown |-> [id \in EntityIds |-> Absent]]

\* The record of a call: its name and argument, whether the call before it was
\* the same call with the same argument, and the hovered back-reference it found.
Op(name, arg) ==
    [op      |-> name,
     arg     |-> arg,
     again   |-> (lastOp.op = name /\ lastOp.arg = arg),
     hovered |-> hoveredEntity]

\* initialize(): an empty map; the back-references are still unassigned.
SceneInit ==
    /\ meshes = <<>>
    /\ entities = [id \in EntityIds |-> Undefined]
    /\ selectedEntity = Undefined
    /\ hoveredEntity = Undefined
    /\ lastOp = [op |-> "initialize", arg |-> 0, again |-> FALSE,
                 hovered |-> Undefined]
    /\ pass = NoPass
    /\ cursor = ""

\* ----------------------------------------------------------------- actions
\* The meshes and the map after createEntity(entity).
createEntityMeshes(ms, entity) == Append(ms, NewSphere(entity))
createEntityMap(ents, ms, entity) == [ents EXCEPT ![entity.id] = Len(ms) + 1]

\* createEntity(entity) called from outside the controller.
createEntity(entity) ==
    /\ Len(meshes) < MaxMeshes
    /\ meshes' = createEntityMeshes(meshes, entity)
    /\ entities' = createEntityMap(entities, meshes, entity)
    /\ UNCHANGED <<selectedEntity, hoveredEntity>>
    /\ lastOp' = Op("createEntity", entity)
    /\ UNCHANGED <<cursor, hostAll>>
    /\ pass' = NoPass

\* Mutant of setEntityMeshes: the mesh is moved and never re-enabled.
setEntityMeshesNoEnable(ms, ents, entity) ==
    LET stored == ents[entity.id]
        ms1    == IF ~Truthy(stored) THEN createEntityMeshes(ms, entity) ELSE ms
        m      == IF ~Truthy(stored) THEN Len(ms1) ELSE stored
    IN  [ms1 EXCEPT ![m].position = getEntityPosition(entity)]

\* The meshes after setEntity(entity): look up or create, move, enable.
setEntityMeshes(ms, ents, entity) ==
    LET stored == ents[entity.id]
        ms1    == IF ~Truthy(stored) THEN createEntityMeshes(ms, entity) ELSE ms
        m      == IF ~Truthy(stored) THEN Len(ms1) ELSE stored
    IN  [ms1 EXCEPT ![m].position = getEntityPosition(entity),
                    ![m].enabled = TRUE]

setEntityMap(ms, ents, entity) ==
    IF ~Truthy(ents[entity.id]) THEN createEntityMap(ents, ms, entity) ELSE ents

\* Mutant of setEntity: the map is not consulted, a mesh is created every time.
setEntityAlwaysCreates(entity) ==
    /\ Len(meshes) < MaxMeshes
    /\ meshes' = [createEntityMeshes(meshes, entity)
                      EXCEPT ![Len(meshes) + 1].position = getEntityPosition(entity),
                             ![Len(meshes) + 1].enabled = TRUE]
    /\ entities' = createEntityMap(entities, meshes, entity)
    /\ UNCHANGED <<selectedEntity, hoveredEntity>>
    /\ lastOp' = Op("setEntity", entity)
    /\ UNCHANGED <<cursor, hostAll>>
    /\ pass' = IF pass.active
               THEN [pass EXCEPT !.shown[entity.id] = getEntityPosition(entity)]
               ELSE pass

setEntity(entity) ==
    /\ Truthy(entities[entity.id]) \/ Len(meshes) < MaxMeshes
    /\ meshes' = setEntityMeshes(meshes, entities, entity)
    /\ entities' = setEntityMap(meshes, entities, entity)
    /\ UNCHANGED <<selectedEntity, hoveredEntity>>
    /\ lastOp' = Op("setEntity", entity)
    /\ UNCHANGED <<cursor, hostAll>>
    /\ pass' = IF pass.active
               THEN [pass EXCEPT !.shown[entity.id] = getEntityPosition(entity)]
               ELSE pass

\* The tracked meshes: the values of the map.
Tracked == {entities[id] : id \in {i \in EntityIds : Truthy(entities[i])}}

\* Mutant of hideAllEntitiesMeshes: a hidden mesh also loses its material.
hideAllEntitiesMeshesResetsMaterial(ms, tracked) ==
    [m \in DOMAIN ms |-> IF m \in tracked
                         THEN [ms[m] EXCEPT !.enabled = FALSE,
                                            !.material = entityMaterial]
                         ELSE ms[m]]

hideAllEntitiesMeshes(ms, tracked) ==
    [m \in DOMAIN ms |-> IF m \in tracked THEN [ms[m] EXCEPT !.enabled = FALSE]
                         ELSE ms[m]]

hideAllEntities ==
    /\ meshes' = hideAllEntitiesMeshes(meshes, Tracked)
    /\ UNCHANGED <<entities, selectedEntity, hoveredEntity>>
    /\ lastOp' = Op("hideAllEntities", 0)
    /\ UNCHANGED <<cursor, hostAll>>
    /\ pass' = [active |-> TRUE, shown |-> [id \in EntityIds |-> Absent]]

\* Mutant of RestoredMaterial: the selected mesh is not told apart.
RestoredMaterialAlwaysDefault(hovered, selected) == entityMaterial

\* The material a formerly hovered mesh is given back.
RestoredMaterial(hovered, selected) ==
    IF LooseEq(hovered, selected) THEN selectedMaterial ELSE entityMaterial

\* Mutant of markEntityAsSelectedMeshes: the previous selection is restored
\* after the new one is painted, not before.
markEntityAsSelectedMeshesSwapped(ms, stored, selected) ==
    LET ms1 == [ms EXCEPT ![stored].material = selectedMaterial]
    IN  IF Truthy(selected)
        THEN [ms1 EXCEPT ![selected].material = entityMaterial]
        ELSE ms1

\* Mutant of markEntityAsSelectedMeshes: the previous selection keeps its material.
markEntityAsSelectedMeshesNoRestore(ms, stored, selected) ==
    [ms EXCEPT ![stored].material = selectedMaterial]

\* The meshes after markEntityAsSelected found a mesh: the previously selected
\* mesh goes back to the default material, the new one gets the selected one.
markEntityAsSelectedMeshes(ms, stored, selected) ==
    LET ms1 == IF Truthy(selected)
               THEN [ms EXCEPT ![selected].material = entityMaterial]
               ELSE ms
    IN  [ms1 EXCEPT ![stored].material = selectedMaterial]

\* Mutant of markEntityAsSelected: the previous selection is restored before
\* the lookup is tested, so an unknown id clears the selection's material.
markEntityAsSelectedUnguarded(id) ==
    LET storedMesh == entities[id]
        ms1 == IF Truthy(selectedEntity)
               THEN [meshes EXCEPT ![selectedEntity].material = entityMaterial]
               ELSE meshes
    IN
    /\ IF Truthy(storedMesh)
       THEN /\ meshes' = [ms1 EXCEPT ![storedMesh].material = selectedMaterial]
            /\ selectedEntity' = storedMesh
       ELSE /\ meshes' = ms1
            /\ UNCHANGED selectedEntity
    /\ UNCHANGED <<entities, hoveredEntity, pass>>
    /\ lastOp' = Op("markEntityAsSelected", id)
    /\ UNCHANGED <<cursor, hostAll>>

markEntityAsSelected(id) ==
    LET storedMesh == entities[id] IN
    /\ IF Truthy(storedMesh)
       THEN /\ meshes' = markEntityAsSelectedMeshes(meshes, storedMesh, selectedEntity)
            /\ selectedEntity' = storedMesh
       ELSE UNCHANGED <<meshes, selectedEntity>>
    /\ UNCHANGED <<entities, hoveredEntity, pass>>
    /\ lastOp' = Op("markEntityAsSelected", id)
    /\ UNCHANGED <<cursor, hostAll>>

\* Mutant of restoreHoveredMeshes: the formerly hovered mesh is left as it is.
restoreHoveredMeshesSkipped(ms, hovered, selected) == ms

\* The meshes after the "restore previous entity material" block shared by
\* onEntityHovered and onEntityStopHovered.
restoreHoveredMeshes(ms, hovered, selected) ==
    IF Truthy(hovered)
    THEN [ms EXCEPT ![hovered].material = RestoredMaterial(hovered, selected)]
    ELSE ms

\* Mutant of onEntityHoveredMeshes: the formerly hovered mesh is not restored.
onEntityHoveredMeshesNoRestore(ms, stored, hovered, selected) ==
    [ms EXCEPT ![stored].material = hoveredMaterial]

onEntityHoveredMeshes(ms, stored, hovered, selected) ==
    [restoreHoveredMeshes(ms, hovered, selected)
        EXCEPT ![stored].material = hoveredMaterial]

onEntityHovered(id) ==
    LET storedMesh == entities[id] IN
    /\ IF Truthy(storedMesh)
       THEN /\ meshes' = onEntityHoveredMeshes(meshes, storedMesh,
                                               hoveredEntity, selectedEntity)
            /\ hoveredEntity' = storedMesh
       ELSE UNCHANGED <<meshes, hoveredEntity>>
    /\ UNCHANGED <<entities, selectedEntity, pass>>
    /\ lastOp' = Op("onEntityHovered", id)
    /\ UNCHANGED <<cursor, hostAll>>

onEntityStopHovered ==
    /\ meshes' = restoreHoveredMeshes(meshes, hoveredEntity, selectedEntity)
    /\ hoveredEntity' = Null
    /\ UNCHANGED <<entities, selectedEntity, pass>>
    /\ lastOp' = Op("onEntityStopHovered", 0)
    /\ UNCHANGED <<cursor, hostAll>>

\* scene.pointerDownPredicate and scene.pointerMovePredicate: what a pick may
\* hit. The engine applies nothing else once a predicate is set, so a disabled
\* mesh can be hit.
pointerDownPredicate(mesh) == mesh.isPickable
pointerMovePredicate(mesh) == mesh.isPickable

\* BABYLON.PickingInfo for a miss and for a hit on a mesh of the scene.
Miss == [hit |-> FALSE, pickedMesh |-> Null]
Hit(m) == [hit |-> TRUE, pickedMesh |-> m]
PointerDownPicks ==
    {Miss} \cup {Hit(m) : m \in {i \in DOMAIN meshes : pointerDownPredicate(meshes[i])}}
PointerMovePicks ==
    {Miss} \cup {Hit(m) : m \in {i \in DOMAIN meshes : pointerMovePredicate(meshes[i])}}

\* scene.onPointerDown: on a hit the onEntitySelected callback is invoked with
\* the parsed id of the picked mesh; the calls made are kept in lastOp.
onPointerDown(pickResult) ==
    /\ UNCHANGED <<meshes, entities, selectedEntity, hoveredEntity, pass>>
    /\ lastOp' = Op("onPointerDown",
                    [pickResult |-> pickResult,
                     onEntitySelected |->
                        IF pickResult.hit
                        THEN <<parseInt(meshes[pickResult.pickedMesh].id)>>
                        ELSE <<>>])
    /\ UNCHANGED <<cursor, hostAll>>

\* scene.onPointerMove: on a hit onEntityHovered(parseInt(id of the picked
\* mesh)) and the pointer cursor; on a miss onEntityStopHovered().
onPointerMove(pickInfo) ==
    LET storedMesh == MapGet(entities, parseInt(meshes[pickInfo.pickedMesh].id)) IN
    /\ IF pickInfo.hit
       THEN /\ IF Truthy(storedMesh)
               THEN /\ meshes' = onEntityHoveredMeshes(meshes, storedMesh,
                                                       hoveredEntity, selectedEntity)
                    /\ hoveredEntity' = storedMesh
               ELSE UNCHANGED <<meshes, hoveredEntity>>
            /\ cursor' = "pointer"
       ELSE /\ meshes' = restoreHoveredMeshes(meshes, hoveredEntity, selectedEntity)
            /\ hoveredEntity' = Null
            /\ UNCHANGED cursor
    /\ UNCHANGED <<entities, selectedEntity, pass>>
    /\ lastOp' = Op("onPointerMove", pickInfo)
    /\ UNCHANGED hostAll

\* -------------------------------------------------------------------- host
\* Messaging.MessageType, the enumerants the protocol names.
Save == "Save"
Load == "Load"
Open == "Open"
Clear == "Clear"
OpenResult == "OpenResult"
ClearResult == "ClearResult"
RequestSave == "RequestSave"
UpdateRecentFiles == "UpdateRecentFiles"
MessageTypes == {Save, Load, Open, Clear, OpenResult, ClearResult, RequestSave,
                 UpdateRecentFiles}

\* The renderers (event.sender) that can send a request.
Senders == {"rendererA", "rendererB"}
Paths == {"/tmp/rec.json", "/tmp/other.json"}
Contents == {"<contents of rec>", "<contents of other>"}

\* Messaging.Message: the payload is a path for Load, the recording for Save.
Message(type, data) == [type |-> type, data |-> data]
Messages ==
    {Message(Load, p) : p \in Paths}
    \cup {Message(Save, "<recording>")}
    \cup {Message(t, "") : t \in MessageTypes \ {Load, Save}}

\* The buttons of the dialog, ['Remove data', 'Cancel'], by index.
Buttons == {0, 1}

\* sessionOptions = new SessionOptions(); nothing is pending, nothing was sent.
HostInit ==
    /\ showClearDataDialog = TRUE
    /\ dialogs = {}
    /\ fileOps = {}
    /\ saves = <<>>
    /\ replies = <<>>
    /\ nextEvent = 1
    /\ lastHost = [kind |-> "start"]

Init == SceneInit /\ HostInit

\* The window the menu callbacks send to: mainWindow.webContents.send.
mainWindow == "mainWindow"

\* Mutant of Reply: sent through mainWindow.webContents.send, as the menu
\* callbacks do, whoever sent the request.
ReplyToMainWindow(event, message) ==
    [channel |-> "asynchronous-reply", to |-> mainWindow, event |-> event.id,
     request |-> event.type, type |-> message.type, data |-> message.data]

\* event.reply('asynchronous-reply', message): to the sender of the event only.
\* event.id and event.type (the number and the type of the message the handler
\* was called with) are history: they tell which request a reply answers.
Reply(event, message) ==
    [channel |-> "asynchronous-reply", to |-> event.sender, event |-> event.id,
     request |-> event.type, type |-> message.type, data |-> message.data]

\* Mutant of ClearResultData: the button index is tested against the wrong button.
ClearResultDataWrongButton(response, checkboxChecked) ==
    [clear |-> (response = 1), remember |-> checkboxChecked]

\* The data of the ClearResult a dialog answer is mapped to.
ClearResultData(response, checkboxChecked) ==
    LET shouldClear == (response = 0)
    IN  [clear |-> shouldClear, remember |-> checkboxChecked]

\* Mutant of showClearDataDialogAfter: the answer is never remembered.
showClearDataDialogAfterForgets(flag, response, checkboxChecked) == flag

\* Mutant of showClearDataDialogAfter: the flag is assigned on every answer.
showClearDataDialogAfterResets(flag, response, checkboxChecked) ==
    ~((response = 0) /\ checkboxChecked)

\* The session flag after a dialog answer.
showClearDataDialogAfter(flag, response, checkboxChecked) ==
    LET shouldClear == (response = 0)
    IN  IF shouldClear /\ checkboxChecked THEN FALSE ELSE flag

\* case Messaging.MessageType.Save
caseSave(event, arg) ==
    /\ saves' = Append(saves, arg.data)
    /\ UNCHANGED <<showClearDataDialog, dialogs, fileOps, replies>>

\* case Messaging.MessageType.Load
caseLoad(event, arg) ==
    /\ fileOps' = fileOps \cup
          {[event |-> event, kind |-> "loadFile", path |-> arg.data]}
    /\ UNCHANGED <<showClearDataDialog, dialogs, saves, replies>>

\* case Messaging.MessageType.Open
caseOpen(event, arg) ==
    /\ fileOps' = fileOps \cup
          {[event |-> event, kind |-> "openFile", path |-> ""]}
    /\ UNCHANGED <<showClearDataDialog, dialogs, saves, replies>>

\* Mutant of caseClear: the break after the immediate reply is missing, so the
\* dialog is opened as well.
caseClearNoBreak(event, arg) ==
    IF ~showClearDataDialog
    THEN /\ replies' = Append(replies,
              Reply(event, Message(ClearResult,
                                   [clear |-> TRUE, remember |-> TRUE])))
         /\ dialogs' = dialogs \cup {event}
         /\ UNCHANGED <<showClearDataDialog, fileOps, saves>>
    ELSE /\ dialogs' = dialogs \cup {event}
         /\ UNCHANGED <<showClearDataDialog, fileOps, saves, replies>>

\* Mutant of caseClear: the session flag is not read, the dialog always opens.
caseClearIgnoresFlag(event, arg) ==
    /\ dialogs' = dialogs \cup {event}
    /\ UNCHANGED <<showClearDataDialog, fileOps, saves, replies>>

\* case Messaging.MessageType.Clear: reply at once when the session flag is at
\* skip, open the confirmation dialog otherwise.
caseClear(event, arg) ==
    IF ~showClearDataDialog
    THEN /\ replies' = Append(replies,
              Reply(event, Message(ClearResult,
                                   [clear |-> TRUE, remember |-> TRUE])))
         /\ UNCHANGED <<showClearDataDialog, dialogs, fileOps, saves>>
    ELSE /\ dialogs' = dialogs \cup {event}
         /\ UNCHANGED <<showClearDataDialog, fileOps, saves, replies>>

\* Mutant of caseOther: a default label placed on the Clear case.
caseOtherFallsToClear(event, arg) ==
    IF ~showClearDataDialog
    THEN /\ replies' = Append(replies,
              Reply(event, Message(ClearResult,
                                   [clear |-> TRUE, remember |-> TRUE])))
         /\ UNCHANGED <<showClearDataDialog, dialogs, fileOps, saves>>
    ELSE /\ dialogs' = dialogs \cup {event}
         /\ UNCHANGED <<showClearDataDialog, fileOps, saves, replies>>

\* The switch has no default: any other type falls out of it.
caseOther(event, arg) == UNCHANGED hostVars

\* Mutant of onAsynchronousMessage: the dialog is shown synchronously, so no
\* message is dispatched while one is open.
onAsynchronousMessageBlockedByDialog(sender, arg) ==
    LET event == [id |-> nextEvent, sender |-> sender, type |-> arg.type] IN
    /\ dialogs = {}
    /\ UNCHANGED sceneAll
    /\ nextEvent <= MaxRequests
    /\ nextEvent' = nextEvent + 1
    /\ lastHost' = [kind |-> "message", event |-> event, arg |-> arg]
    /\ CASE arg.type = Save -> caseSave(event, arg)
         [] arg.type = Load -> caseLoad(event, arg)
         [] arg.type = Open -> caseOpen(event, arg)
         [] arg.type = Clear -> caseClear(event, arg)
         [] OTHER -> caseOther(event, arg)

\* ipcMain.on('asynchronous-message', (event, arg) => switch (arg.type) ...)
onAsynchronousMessage(sender, arg) ==
    LET event == [id |-> nextEvent, sender |-> sender, type |-> arg.type] IN
    /\ UNCHANGED sceneAll
    /\ nextEvent <= MaxRequests
    /\ nextEvent' = nextEvent + 1
    /\ lastHost' = [kind |-> "message", event |-> event, arg |-> arg]
    /\ CASE arg.type = Save -> caseSave(event, arg)
         [] arg.type = Load -> caseLoad(event, arg)
         [] arg.type = Open -> caseOpen(event, arg)
         [] arg.type = Clear -> caseClear(event, arg)
         [] OTHER -> caseOther(event, arg)

\* The callback handed to dialog.showMessageBox, fired by the user's answer.
showMessageBoxCallback(event, response, checkboxChecked) ==
    /\ UNCHANGED sceneAll
    /\ event \in dialogs
    /\ dialogs' = dialogs \ {event}
    /\ showClearDataDialog' =
           showClearDataDialogAfter(showClearDataDialog, response, checkboxChecked)
    /\ replies' = Append(replies,
           Reply(event, Message(ClearResult,
                                ClearResultData(response, checkboxChecked))))
    /\ UNCHANGED <<fileOps, saves, nextEvent>>
    /\ lastHost' = [kind |-> "showMessageBoxCallback", event |-> event,
                    response |-> response, checkboxChecked |-> checkboxChecked]

\* FileManager.loadFile / openFile: the completion callback of an operation is
\* invoked at most once, after which the operation is over.
fileManagerCompleted(ops, op) == ops \ {op}

\* The callback handed to fileManager.loadFile / openFile, fired with the
\* content the file manager read.
fileCallback(op, content) ==
    /\ UNCHANGED sceneAll
    /\ op \in fileOps
    /\ fileOps' = fileManagerCompleted(fileOps, op)
    /\ replies' = Append(replies, Reply(op.event, Message(OpenResult, content)))
    /\ UNCHANGED <<showClearDataDialog, dialogs, saves, nextEvent>>
    /\ lastHost' = [kind |-> "fileCallback", event |-> op.event, op |-> op,
                    content |-> content]

\* What a menu callback or the file manager's history callback stands in for
\* the event of a request: a number, the window to send to, and its own name.
MenuEvent(name) == [id |-> nextEvent, sender |-> mainWindow, type |-> name]

\* The lists the file manager reports as its recent files.
RecentLists == {<<"/tmp/rec.json">>, <<"/tmp/rec.json", "/tmp/other.json">>}

\* paths.toString(): the elements joined by commas.
RECURSIVE ArrayToString(_)
ArrayToString(paths) ==
    IF Len(paths) = 0 THEN ""
    ELSE IF Len(paths) = 1 THEN paths[1]
    ELSE paths[1] \o "," \o ArrayToString(Tail(paths))

\* onFileHistoryChanged(paths), the callback given to fileManager.initialize.
onFileHistoryChanged(paths) ==
    LET event == MenuEvent("onFileHistoryChanged") IN
    /\ UNCHANGED sceneAll
    /\ nextEvent <= MaxRequests
    /\ nextEvent' = nextEvent + 1
    /\ replies' = Append(replies,
           Reply(event, Message(UpdateRecentFiles, ArrayToString(paths))))
    /\ UNCHANGED <<showClearDataDialog, dialogs, fileOps, saves>>
    /\ lastHost' = [kind |-> "onFileHistoryChanged", event |-> event,
                    paths |-> paths]

\* onOpenFileClicked(): File > Open.
onOpenFileClicked ==
    LET event == MenuEvent("onOpenFileClicked") IN
    /\ UNCHANGED sceneAll
    /\ nextEvent <= MaxRequests
    /\ nextEvent' = nextEvent + 1
    /\ fileOps' = fileOps \cup
          {[event |-> event, kind |-> "openFile", path |-> ""]}
    /\ UNCHANGED <<showClearDataDialog, dialogs, saves, replies>>
    /\ lastHost' = [kind |-> "onOpenFileClicked", event |-> event]

\* onExportFileClicked(): File > Export.
onExportFileClicked ==
    LET event == MenuEvent("onExportFileClicked") IN
    /\ UNCHANGED sceneAll
    /\ nextEvent <= MaxRequests
    /\ nextEvent' = nextEvent + 1
    /\ replies' = Append(replies, Reply(event, Message(RequestSave, "")))
    /\ UNCHANGED <<showClearDataDialog, dialogs, fileOps, saves>>
    /\ lastHost' = [kind |-> "onExportFileClicked", event |-> event]

\* onOpenRecentFileClicked(path): File > Recent Files > path.
onOpenRecentFileClicked(path) ==
    LET event == MenuEvent("onOpenRecentFileClicked") IN
    /\ UNCHANGED sceneAll
    /\ nextEvent <= MaxRequests
    /\ nextEvent' = nextEvent + 1
    /\ fileOps' = fileOps \cup
          {[event |-> event, kind |-> "loadFile", path |-> path]}
    /\ UNCHANGED <<showClearDataDialog, dialogs, saves, replies>>
    /\ lastHost' = [kind |-> "onOpenRecentFileClicked", event |-> event,
                    path |-> path]

\* ---------------------------------------------------------- specifications
\* The controller driven through the calls its users make on it.
Next ==
    \/ \E entity \in Entities : setEntity(entity)
    \/ hideAllEntities
    \/ \E id \in EntityIds : markEntityAsSelected(id)
    \/ \E id \in EntityIds : onEntityHovered(id)
    \/ onEntityStopHovered

Spec == Init /\ [][Next]_vars

\* The controller driven by playback and by the pointer: frames are drawn
\* while the pointer moves and clicks on the canvas.
PointerNext ==
    \/ \E entity \in Entities : setEntity(entity)
    \/ hideAllEntities
    \/ \E pickResult \in PointerDownPicks : onPointerDown(pickResult)
    \/ \E pickInfo \in PointerMovePicks : onPointerMove(pickInfo)

PointerSpec == Init /\ [][PointerNext]_vars

\* The same, with createEntity also called directly.
CreateNext ==
    \/ Next
    \/ \E entity \in Entities : createEntity(entity)

CreateSpec == Init /\ [][CreateNext]_vars

\* createEntity called directly while the pointer moves over the canvas.
CreatePointerNext ==
    \/ \E entity \in Entities : createEntity(entity)
    \/ \E pickInfo \in PointerMovePicks : onPointerMove(pickInfo)

CreatePointerSpec == Init /\ [][CreatePointerNext]_vars

\* The host: messages arrive, menu items are clicked, dialogs are answered,
\* file operations complete, in any order.
HostNext ==
    \/ \E sender \in Senders, arg \in Messages : onAsynchronousMessage(sender, arg)
    \/ \E event \in dialogs, response \in Buttons, checkboxChecked \in BOOLEAN :
           showMessageBoxCallback(event, response, checkboxChecked)
    \/ \E op \in fileOps, content \in Contents : fileCallback(op, content)
    \/ \E paths \in RecentLists : onFileHistoryChanged(paths)
    \/ onOpenFileClicked
    \/ onExportFileClicked
    \/ \E path \in Paths : onOpenRecentFileClicked(path)

HostSpec == Init /\ [][HostNext]_vars

\* ------------------------------------------------- claims: scene controller
MeshOf(id) == meshes[entities[id]]

\* C1: markEntityAsSelected(id) and onEntityHovered(id) for an id that has no
\* mesh in the map change nothing: every mesh (its material included), the
\* map, the selected back-reference and the hovered back-reference are the
\* same after the call as before.
C1_UnknownIdIsNoOp ==
    [][(lastOp'.op \in {"markEntityAsSelected", "onEntityHovered"}
        /\ ~Truthy(entities[lastOp'.arg]))
       => UNCHANGED sceneVars]_vars

\* A call for an unknown id made while other meshes are selected and hovered.
C1_Witness ==
    /\ lastOp.op \in {"markEntityAsSelected", "onEntityHovered"}
    /\ ~Truthy(entities[lastOp.arg])
    /\ Truthy(selectedEntity)
    /\ Truthy(hoveredEntity)

\* C2: once hideAllEntities() has run, every tracked mesh is disabled except
\* those setEntity was called for since: these are enabled, tracked, and at
\* the position of their latest setEntity call.
C2_HideThenShow ==
    pass.active =>
        \A id \in EntityIds :
            /\ pass.shown[id] # Absent => Truthy(entities[id])
            /\ Truthy(entities[id]) =>
                /\ MeshOf(id).enabled <=> (pass.shown[id] # Absent)
                /\ pass.shown[id] # Absent =>
                       MeshOf(id).position = pass.shown[id]

\* A pass that showed one entity, moved away from where it was created, and
\* left another tracked entity hidden.
C2_Witness ==
    /\ pass.active
    /\ lastOp.op = "setEntity"
    /\ \E a, b \in EntityIds :
        /\ Truthy(entities[a]) /\ Truthy(entities[b])
        /\ pass.shown[a] # Absent /\ pass.shown[a] # <<0, 0, 0>>
        /\ pass.shown[b] = Absent
        /\ MeshOf(a).enabled /\ ~MeshOf(b).enabled

\* C3: when the hovered mesh is also the selected mesh, onEntityStopHovered()
\* leaves it displaying the selected material, clears the hovered
\* back-reference and keeps the selected back-reference.
C3_StopHoverKeepsSelected ==
    [][(lastOp'.op = "onEntityStopHovered"
        /\ Truthy(hoveredEntity) /\ hoveredEntity = selectedEntity)
       => /\ meshes'[selectedEntity].material = selectedMaterial
          /\ ~Truthy(hoveredEntity')
          /\ selectedEntity' = selectedEntity]_vars

\* onEntityStopHovered() has just run on a mesh that was hovered and selected.
C3_Witness ==
    /\ lastOp.op = "onEntityStopHovered"
    /\ Truthy(lastOp.hovered)
    /\ lastOp.hovered = selectedEntity
    /\ meshes[selectedEntity].material = selectedMaterial
    /\ ~Truthy(hoveredEntity)

\* C4: hover handoff. onEntityHovered(A) for a tracked A makes A's mesh the
\* hovered mesh; onEntityHovered(B) for a tracked B other than the hovered A
\* then gives B the hover material and A the selected material if A is the
\* selected mesh, the default material otherwise: A and B do not both display
\* the hover material.
C4_HoverHandoff ==
    [][(lastOp'.op = "onEntityHovered" /\ Truthy(entities[lastOp'.arg]))
       => LET B == lastOp'.arg IN
          /\ hoveredEntity' = entities[B]
          /\ meshes'[entities[B]].material = hoveredMaterial
          /\ \A A \in EntityIds \ {B} :
                (Truthy(entities[A]) /\ hoveredEntity = entities[A])
                => /\ meshes'[entities[A]].material =
                          (IF entities[A] = selectedEntity
                           THEN selectedMaterial ELSE entityMaterial)
                   /\ meshes'[entities[A]].material # hoveredMaterial]_vars

\* onEntityHovered(B) has just taken the hover over from a selected mesh A.
C4_Witness ==
    /\ lastOp.op = "onEntityHovered"
    /\ Truthy(entities[lastOp.arg])
    /\ Truthy(lastOp.hovered)
    /\ lastOp.hovered # entities[lastOp.arg]
    /\ lastOp.hovered = selectedEntity
    /\ meshes[lastOp.hovered].material = selectedMaterial
    /\ MeshOf(lastOp.arg).material = hoveredMaterial

\* C5 as stated: a mesh that is both the selected and the hovered mesh displays
\* the selected material.
C5_SelectedOverHovered ==
    (Truthy(selectedEntity) /\ hoveredEntity = selectedEntity)
    => meshes[selectedEntity].material = selectedMaterial

\* C5 as amended: a mesh that is both the selected and the hovered mesh
\* displays the hover material or the selected material, never the default.
C5_SelectedAndHoveredNotDefault ==
    (Truthy(selectedEntity) /\ hoveredEntity = selectedEntity)
    => meshes[selectedEntity].material \in {hoveredMaterial, selectedMaterial}

\* A selected mesh that was hovered afterwards: it displays the hover material.
C5_Witness ==
    /\ Truthy(selectedEntity) /\ hoveredEntity = selectedEntity
    /\ meshes[selectedEntity].material = hoveredMaterial
    /\ lastOp.op = "onEntityHovered"

\* C6: among the tracked meshes at most one displays the selected material
\* and at most one displays the hover material.
C6_AtMostOneSelectedOneHovered ==
    /\ Cardinality({m \in Tracked : meshes[m].material = selectedMaterial}) <= 1
    /\ Cardinality({m \in Tracked : meshes[m].material = hoveredMaterial}) <= 1

\* Two tracked meshes, one displaying each material, after a re-selection.
C6_Witness ==
    /\ \E m, n \in Tracked :
        /\ m # n
        /\ meshes[m].material = selectedMaterial
        /\ meshes[n].material = hoveredMaterial
    /\ lastOp.op = "markEntityAsSelected"
    /\ lastOp.again

\* C7: the scene holds at most one entity mesh stamped with a given id, and
\* that mesh is the one the map registers for the id.
C7_OneMeshPerId ==
    \A id \in EntityIds :
        LET stamped == {m \in DOMAIN meshes : meshes[m].id = NumberToString(id)}
        IN  /\ Cardinality(stamped) <= 1
            /\ \A m \in stamped : entities[id] = m

\* C8: setEntity(e) called again right after setEntity(e), with the same
\* entity data, changes nothing: meshes, map and back-references are as the
\* first call left them.
C8_SetEntityIdempotent ==
    [][(lastOp'.op = "setEntity" /\ lastOp'.again) => UNCHANGED sceneVars]_vars

\* The second of two equal calls, on a mesh that had been hidden and moved.
C8_Witness ==
    /\ lastOp.op = "setEntity"
    /\ lastOp.again
    /\ pass.active
    /\ MeshOf(lastOp.arg.id).enabled
    /\ MeshOf(lastOp.arg.id).position = lastOp.arg.position
    /\ lastOp.arg.position # <<0, 0, 0>>

\* ------------------------------------------------------------- claims: host
\* C9 as stated: a dialog answer with "Don't ask again" checked, whichever
\* button is pressed, sets the session flag to skip.
C9_CheckboxAloneSetsSkip ==
    [][(lastHost'.kind = "showMessageBoxCallback" /\ lastHost'.checkboxChecked)
       => ~showClearDataDialog']_vars

\* C9 as amended: a dialog answer of "Remove data" (button 0) with "Don't ask
\* again" checked sets the session flag to skip; the flag then stays at skip,
\* and every Clear request handled while it is at skip opens no dialog and is
\* answered at once with a ClearResult to its sender.
C9_RemoveAndCheckboxSetsSkip ==
    [][/\ (lastHost'.kind = "showMessageBoxCallback"
           /\ lastHost'.response = 0 /\ lastHost'.checkboxChecked)
          => ~showClearDataDialog'
       /\ ~showClearDataDialog => ~showClearDataDialog'
       /\ (~showClearDataDialog /\ lastHost'.kind = "message"
           /\ lastHost'.arg.type = Clear)
          => /\ dialogs' = dialogs
             /\ Len(replies') = Len(replies) + 1
             /\ replies'[Len(replies')].type = ClearResult
             /\ replies'[Len(replies')].event = lastHost'.event.id
             /\ replies'[Len(replies')].to = lastHost'.event.sender]_vars

\* A Clear request has just been answered without a dialog, after an answer
\* of "Remove data" with the checkbox checked.
C9_Witness ==
    /\ ~showClearDataDialog
    /\ lastHost.kind = "message" /\ lastHost.arg.type = Clear
    /\ Len(replies) >= 2
    /\ replies[Len(replies)].event = lastHost.event.id
    /\ \E i \in 1..(Len(replies) - 1) :
          /\ replies[i].type = ClearResult
          /\ replies[i].data = [clear |-> TRUE, remember |-> TRUE]

\* C10: the ClearResult sent for a dialog answer has clear = TRUE exactly when
\* the button index is 0 and remember equal to the checkbox value; the
\* ClearResult sent for a Clear request handled while the session flag is at
\* skip is {clear: true, remember: true}. Each goes to the request's sender.
C10_ClearResultData ==
    [][/\ lastHost'.kind = "showMessageBoxCallback"
          => /\ Len(replies') = Len(replies) + 1
             /\ replies'[Len(replies')].type = ClearResult
             /\ replies'[Len(replies')].data.clear = (lastHost'.response = 0)
             /\ replies'[Len(replies')].data.remember = lastHost'.checkboxChecked
             /\ replies'[Len(replies')].event = lastHost'.event.id
             /\ replies'[Len(replies')].to = lastHost'.event.sender
       /\ (lastHost'.kind = "message" /\ lastHost'.arg.type = Clear
           /\ ~showClearDataDialog)
          => /\ Len(replies') = Len(replies) + 1
             /\ replies'[Len(replies')].type = ClearResult
             /\ replies'[Len(replies')].data = [clear |-> TRUE, remember |-> TRUE]
             /\ replies'[Len(replies')].event = lastHost'.event.id]_vars

\* A dialog answered "Cancel" with the checkbox checked: {clear: false,
\* remember: true} has just been sent.
C10_Witness ==
    /\ lastHost.kind = "showMessageBoxCallback"
    /\ lastHost.response = 1 /\ lastHost.checkboxChecked
    /\ replies[Len(replies)].type = ClearResult
    /\ replies[Len(replies)].data = [clear |-> FALSE, remember |-> TRUE]

\* ---------------------------------------------- claims: pointer and scene
\* C15: a pointer-down that hits the mesh of entity id invokes onEntitySelected
\* once, with the integer id read back from the mesh's stamp, and a pointer-down
\* that misses invokes nothing; neither changes a mesh, the map or the
\* selected / hovered back-references.
C15_PointerDownInvokesCallback ==
    [][lastOp'.op = "onPointerDown"
       => LET pick  == lastOp'.arg.pickResult
              calls == lastOp'.arg.onEntitySelected
          IN  /\ UNCHANGED <<meshes, entities, selectedEntity, hoveredEntity>>
              /\ ~pick.hit => calls = <<>>
              /\ pick.hit => \E id \in EntityIds :
                                /\ entities[id] = pick.pickedMesh
                                /\ calls = <<Number(id)>>]_vars

\* The hidden mesh of the two-digit id was clicked while the other mesh is
\* hovered: the callback got the id; the clicked mesh is still hidden, not
\* selected and in the default material.
C15_Witness ==
    /\ lastOp.op = "onPointerDown"
    /\ lastOp.arg.pickResult.hit
    /\ lastOp.arg.pickResult.pickedMesh = entities[FirstId + 1]
    /\ lastOp.arg.onEntitySelected = <<Number(FirstId + 1)>>
    /\ Truthy(hoveredEntity) /\ hoveredEntity = entities[FirstId]
    /\ selectedEntity # entities[FirstId + 1]
    /\ ~MeshOf(FirstId + 1).enabled
    /\ MeshOf(FirstId + 1).material = entityMaterial

\* C16: after a pointer-move that misses, the hovered back-reference is empty
\* and no tracked mesh shows the hover material; after a pointer-move that hits
\* a mesh, that mesh is the hovered mesh and shows the hover material.
C16_PointerMoveHovers ==
    [][lastOp'.op = "onPointerMove"
       => IF lastOp'.arg.hit
          THEN /\ hoveredEntity' = lastOp'.arg.pickedMesh
               /\ meshes'[lastOp'.arg.pickedMesh].material = hoveredMaterial
          ELSE /\ ~Truthy(hoveredEntity')
               /\ \A m \in Tracked' : meshes'[m].material # hoveredMaterial]_vars

\* C17: every tracked mesh that is not the hovered mesh shows the selected
\* material when it is the selected mesh and the default material otherwise.
C17_NonHoveredMaterial ==
    \A m \in Tracked :
        m # hoveredEntity =>
            meshes[m].material =
                IF m = selectedEntity THEN selectedMaterial ELSE entityMaterial

\* The selection has just moved from the hovered mesh to the other tracked
\* mesh: the selected mesh, which is not hovered, shows the selected material,
\* while the hovered one was put back to the default material.
C17_Witness ==
    /\ lastOp.op = "markEntityAsSelected"
    /\ Cardinality(Tracked) = 2
    /\ Truthy(hoveredEntity) /\ Truthy(selectedEntity)
    /\ selectedEntity # hoveredEntity
    /\ selectedEntity \in Tracked /\ hoveredEntity \in Tracked
    /\ meshes[selectedEntity].material = selectedMaterial
    /\ meshes[hoveredEntity].material = entityMaterial

\* C18: hideAllEntities, and setEntity(e) for an id that already has a mesh,
\* change no material, no stamp, no pickable flag, not the map and neither
\* back-reference; hideAllEntities moves no mesh and setEntity(e) moves and
\* re-enables only the mesh of e.
C18_HideAndShowKeepMaterials ==
    [][(\/ lastOp'.op = "hideAllEntities"
        \/ (lastOp'.op = "setEntity" /\ Truthy(entities[lastOp'.arg.id])))
       => /\ UNCHANGED <<entities, selectedEntity, hoveredEntity>>
          /\ DOMAIN meshes' = DOMAIN meshes
          /\ \A m \in DOMAIN meshes :
                /\ meshes'[m].material = meshes[m].material
                /\ meshes'[m].id = meshes[m].id
                /\ meshes'[m].isPickable = meshes[m].isPickable
                /\ (lastOp'.op = "hideAllEntities"
                    \/ m # entities[lastOp'.arg.id])
                   => meshes'[m].position = meshes[m].position
                /\ (lastOp'.op = "setEntity" /\ m # entities[lastOp'.arg.id])
                   => meshes'[m].enabled = meshes[m].enabled]_vars

\* setEntity has just shown again, and moved, the hidden mesh that is hovered
\* while another mesh is selected.
C18_Witness ==
    /\ lastOp.op = "setEntity"
    /\ Truthy(hoveredEntity)
    /\ entities[lastOp.arg.id] = hoveredEntity
    /\ MeshOf(lastOp.arg.id).material = hoveredMaterial
    /\ MeshOf(lastOp.arg.id).position # <<0, 0, 0>>
    /\ pass.active
    /\ Truthy(selectedEntity) /\ selectedEntity # hoveredEntity
    /\ meshes[selectedEntity].material = selectedMaterial

\* ------------------------------------------------- claims: host, continued
\* The reply a step has just sent, when it sent exactly one.
SentOne == Len(replies') = Len(replies) + 1 /\ SubSeq(replies', 1, Len(replies)) = replies
Sent == replies'[Len(replies')]

MenuCallbacks == {"onFileHistoryChanged", "onOpenFileClicked",
                  "onExportFileClicked", "onOpenRecentFileClicked"}

\* C11: every reply answers a received Load, Open or Clear request or comes
\* from a menu / recent-files callback; no two replies answer the same request
\* or callback; a Save or any other message is never answered; a Load or Open
\* is answered by an OpenResult only once its file operation is over, a Clear
\* by a ClearResult only once it is not waiting in a dialog.
C11_AtMostOneReply ==
    \A i \in DOMAIN replies :
        LET r == replies[i] IN
        /\ r.event < nextEvent
        /\ r.request \in {Load, Open, Clear} \cup MenuCallbacks
        /\ r.request \in {Load, Open} => r.type = OpenResult
        /\ r.request = Clear => r.type = ClearResult
        /\ \A j \in DOMAIN replies : j # i => replies[j].event # r.event
        /\ \A op \in fileOps : op.event.id # r.event
        /\ \A d \in dialogs : d.id # r.event

\* A Load and a Clear were received and each was answered once.
C11_Witness ==
    /\ Len(replies) = 2
    /\ nextEvent = 3
    /\ \E i, j \in DOMAIN replies :
          /\ replies[i].request = Load /\ replies[i].type = OpenResult
          /\ replies[j].request = Clear /\ replies[j].type = ClearResult

\* C12: while a confirmation dialog is open the host still dispatches every
\* further message, and every pending file callback and every other open
\* dialog can still complete and send its reply.
C12_OpenDialogBlocksNothing ==
    dialogs # {} =>
        /\ nextEvent <= MaxRequests =>
              \A sender \in Senders, arg \in Messages :
                  ENABLED onAsynchronousMessage(sender, arg)
        /\ \A op \in fileOps, content \in Contents :
              ENABLED fileCallback(op, content)
        /\ \A d \in dialogs, response \in Buttons, checkboxChecked \in BOOLEAN :
              ENABLED showMessageBoxCallback(d, response, checkboxChecked)

\* A later Load was answered while the dialog of an earlier Clear is still open.
C12_Witness ==
    \E d \in dialogs :
        /\ lastHost.kind = "fileCallback"
        /\ lastHost.event.type = Load
        /\ lastHost.event.id > d.id
        /\ replies[Len(replies)].event = lastHost.event.id

\* C13: a message whose type is none of Save, Load, Open, Clear changes nothing
\* on the host: no reply, no file operation, no dialog, no save, the session
\* flag as it was.
C13_OtherTypesDropped ==
    [][(lastHost'.kind = "message"
        /\ lastHost'.arg.type \notin {Save, Load, Open, Clear})
       => UNCHANGED hostVars]_vars

\* An UpdateRecentFiles message has just been received and dropped.
C13_Witness ==
    /\ lastHost.kind = "message"
    /\ lastHost.arg.type = UpdateRecentFiles
    /\ replies = <<>> /\ dialogs = {} /\ fileOps = {} /\ saves = <<>>
    /\ nextEvent = 2

\* C14: a Load request with path p starts exactly one file operation, a load
\* of p, and sends nothing; when that load completes, exactly one message is
\* sent: an OpenResult carrying the delivered content, to the sender of the
\* request.
C14_LoadRepliesToSender ==
    [][/\ (lastHost'.kind = "message" /\ lastHost'.arg.type = Load)
          => /\ fileOps' = fileOps \cup
                    {[event |-> lastHost'.event, kind |-> "loadFile",
                      path |-> lastHost'.arg.data]}
             /\ replies' = replies
       /\ (lastHost'.kind = "fileCallback" /\ lastHost'.event.type = Load)
          => /\ SentOne
             /\ Sent.type = OpenResult
             /\ Sent.data = lastHost'.content
             /\ Sent.to = lastHost'.event.sender
             /\ Sent.event = lastHost'.event.id]_vars

\* rendererB asked for /tmp/other.json and has just been sent its content.
C14_Witness ==
    /\ lastHost.kind = "fileCallback"
    /\ lastHost.event.type = Load
    /\ lastHost.event.sender = "rendererB"
    /\ lastHost.op.path = "/tmp/other.json"
    /\ replies[Len(replies)].to = "rendererB"
    /\ replies[Len(replies)].data = lastHost.content

\* C19: showClearDataDialog starts true; it changes only from true to false,
\* and only on a dialog answer of "Remove data" with the checkbox checked;
\* a Clear request received while it is false is answered in the same step
\* with {clear: true, remember: true} and opens no dialog.
C19_FlagMonotone ==
    /\ showClearDataDialog = TRUE
    /\ [][/\ showClearDataDialog' # showClearDataDialog
             => /\ showClearDataDialog /\ ~showClearDataDialog'
                /\ lastHost'.kind = "showMessageBoxCallback"
                /\ lastHost'.response = 0
                /\ lastHost'.checkboxChecked
          /\ (~showClearDataDialog /\ lastHost'.kind = "message"
              /\ lastHost'.arg.type = Clear)
             => /\ SentOne
                /\ Sent.data = [clear |-> TRUE, remember |-> TRUE]
                /\ Sent.request = Clear
                /\ dialogs' = dialogs]_vars

\* The flag has just been lowered by an answer while another dialog is open.
C19_Witness ==
    /\ ~showClearDataDialog
    /\ lastHost.kind = "showMessageBoxCallback"
    /\ lastHost.response = 0 /\ lastHost.checkboxChecked
    /\ dialogs # {}

\* C20 as stated: once the session flag is at skip, every ClearResult sent
\* carries clear = TRUE.
C20_AllClearAfterSkip ==
    [][(~showClearDataDialog /\ SentOne /\ Sent.type = ClearResult)
       => Sent.data.clear]_vars

\* C20 as amended: once the session flag is at skip no dialog is opened and
\* every Clear request received from then on is answered clear = TRUE; a
\* ClearResult with clear = FALSE sent from then on answers a Clear request
\* whose dialog was already open, and carries the answer given in it.
C20_ClearAfterSkipUnlessDialogOpen ==
    [][~showClearDataDialog
       => /\ dialogs' \subseteq dialogs
          /\ (lastHost'.kind = "message" /\ lastHost'.arg.type = Clear)
             => (SentOne /\ Sent.type = ClearResult /\ Sent.data.clear)
          /\ (SentOne /\ Sent.type = ClearResult /\ ~Sent.data.clear)
             => /\ lastHost'.kind = "showMessageBoxCallback"
                /\ lastHost'.event \in dialogs
                /\ lastHost'.response # 0]_vars

\* With the flag at skip, a dialog that was still open has just been answered
\* "Cancel": a ClearResult with clear = FALSE was sent.
C20_Witness ==
    /\ ~showClearDataDialog
    /\ lastHost.kind = "showMessageBoxCallback"
    /\ lastHost.response = 1
    /\ replies[Len(replies)].type = ClearResult
    /\ ~replies[Len(replies)].data.clear

====
